---- MODULE Spec2Model ----
(***************************************************************************)
(* A model of src/spc_reader.py: the SPCFile class (constructor,           *)
(* parse_file, write_file, _find_and_replace_y_data, _detect_x_units,      *)
(* _guess_units_from_range) over byte buffers.                             *)
(*                                                                         *)
(* Representation.                                                         *)
(*  - A buffer is a sequence of bytes (0..255); Python index i is TLA+     *)
(*    index i+1.                                                           *)
(*  - A float32 is the record [s, e, m] of its IEEE-754 fields (sign,      *)
(*    biased exponent, 23-bit fraction), so that decoding and encoding     *)
(*    work on the bit pattern: -0.0 and 0.0, and the NaNs, stay distinct.  *)
(*  - A sample (an element of y_values or of new_y_values) is a float64:   *)
(*    the record [s, e, m, r] of the float32 nearest below it in magnitude *)
(*    and a flag r = 1 when bits remain below float32 precision (less than *)
(*    half a unit in the last place).  Samples decoded from a buffer have  *)
(*    r = 0.                                                               *)
(*  - x_values is always a prefix of an evenly spaced axis: the record     *)
(*    [first, last, num, len] stands for numpy.linspace(first, last,       *)
(*    num)[:len].  Axis values are kept in half units (q = 2 * value).     *)
(***************************************************************************)
EXTENDS Integers, Sequences, FiniteSets, TLC

----------------------------------------------------------------------------
(* Arithmetic helpers *)

Min(a, b) == IF a <= b THEN a ELSE b

Max(a, b) == IF a >= b THEN a ELSE b

Abs(a) == IF a < 0 THEN -a ELSE a

RECURSIVE Pow2(_)
Pow2(k) == IF k <= 0 THEN 1 ELSE 2 * Pow2(k - 1)

RECURSIVE Gcd(_, _)
Gcd(a, b) == IF b = 0 THEN Abs(a) ELSE Gcd(b, a % b)

RECURSIVE SeqSum(_)
SeqSum(s) == IF s = << >> THEN 0 ELSE Head(s) + SeqSum(Tail(s))

RECURSIVE SeqGcd(_)
SeqGcd(s) == IF s = << >> THEN 0 ELSE Gcd(Head(s), SeqGcd(Tail(s)))

RECURSIVE SeqMin(_)
SeqMin(s) == IF Len(s) = 1 THEN s[1] ELSE Min(Head(s), SeqMin(Tail(s)))

(* a/b > c/d for a, c >= 0 and b, d > 0, by the Euclidean expansion of both
   fractions, so that no product is formed. *)
RECURSIVE FracGT(_, _, _, _)
FracGT(a, b, c, d) ==
    IF a \div b # c \div d THEN a \div b > c \div d
    ELSE IF a % b = 0 THEN FALSE
    ELSE IF c % d = 0 THEN TRUE
    ELSE FracGT(d, c % d, b, a % b)

----------------------------------------------------------------------------
(* Bytes and slices *)

(* b[lo:hi] for 0 <= lo, as Python clips it to the buffer *)
Slice(b, lo, hi) ==
    IF lo >= Min(hi, Len(b)) THEN << >> ELSE SubSeq(b, lo + 1, Min(hi, Len(b)))

(* bytearray slice assignment  b[lo:hi] = new *)
SliceAssign(b, lo, hi, new) == Slice(b, 0, lo) \o new \o Slice(b, hi, Len(b))

Zeros(n) == [i \in 1..n |-> 0]

(* struct.unpack('<I', bs)[0] *)
U32(bs) == bs[1] + 256 * bs[2] + 65536 * bs[3] + 16777216 * bs[4]

(* struct.pack('<I', n) *)
PackU32(n) == << n % 256, (n \div 256) % 256, (n \div 65536) % 256, (n \div 16777216) % 256 >>

----------------------------------------------------------------------------
(* float32: the bit fields of four little-endian bytes *)

DecodeF32(bs) ==
    [s |-> bs[4] \div 128,
     e |-> ((bs[4] % 128) * 2) + (bs[3] \div 128),
     m |-> ((bs[3] % 128) * 65536) + (bs[2] * 256) + bs[1]]

EncodeF32(f) ==
    << f.m % 256,
       (f.m \div 256) % 256,
       ((f.e % 2) * 128) + (f.m \div 65536),
       (f.s * 128) + (f.e \div 2) >>

(* A sample read from a buffer: the float32, with nothing below its precision *)
Sample(f) == [s |-> f.s, e |-> f.e, m |-> f.m, r |-> 0]

(* numpy.frombuffer(b[lo : lo + 4*n], dtype=float32) *)
FromBuffer(b, lo, n) ==
    [i \in 1..n |-> Sample(DecodeF32(Slice(b, lo + 4 * (i - 1), lo + 4 * i)))]

(* ndarray.astype(numpy.float32): the bits below float32 precision are dropped *)
AsFloat32(ys) == [i \in 1..Len(ys) |-> [s |-> ys[i].s, e |-> ys[i].e, m |-> ys[i].m]]

(* ndarray.tobytes() of a float32 array *)
ToBytes(fs) ==
    [k \in 1..(4 * Len(fs)) |-> EncodeF32(fs[((k - 1) \div 4) + 1])[((k - 1) % 4) + 1]]

IsNaN(v) == v.e = 255 /\ v.m # 0

IsInf(v) == v.e = 255 /\ v.m = 0

(* zero or subnormal: magnitude below 2^-126 *)
IsTiny(v) == v.e = 0

(* A normal float32 that is a whole number of 1/128 units below 2^20 *)
IsFixed(v) ==
    /\ v.e >= 120
    /\ v.e <= 146
    /\ (v.e < 143 => (8388608 + v.m) % Pow2(143 - v.e) = 0)

Signed(v, mag) == IF v.s = 1 THEN -mag ELSE mag

(* The value of a float32 in units of 1/128; a tiny value counts as 0 *)
Fixed(v) ==
    IF IsTiny(v) THEN 0
    ELSE IF v.e >= 143 THEN Signed(v, (8388608 + v.m) * Pow2(v.e - 143))
    ELSE Signed(v, (8388608 + v.m) \div Pow2(143 - v.e))

(* The value of a tiny float32 in units of 2^-149 *)
TinyUnits(v) == Signed(v, v.m)

(* The values the arithmetic below is exact on *)
Supported(v) == IsNaN(v) \/ IsInf(v) \/ IsTiny(v) \/ IsFixed(v)

----------------------------------------------------------------------------
(* numpy.allclose and numpy.corrcoef on float32 slices.                     *)
(* The arithmetic is exact rational arithmetic on the Supported values;     *)
(* numpy's own rounding is not modelled.                                    *)

(* numpy.isclose(a, b, rtol=1e-5, atol=1e-6):  |a - b| <= atol + rtol * |b|.
   In units of 1/128 and times 10^6:  10^6 * D <= 128 + 10 * |B|.  Two tiny
   values differ by less than 2^-125, far inside atol; a tiny value beside a
   fixed one is as far from it as 0 is. *)
IsClose(a, b) ==
    IF IsNaN(a) \/ IsNaN(b) THEN FALSE
    ELSE IF IsInf(a) \/ IsInf(b) THEN IsInf(a) /\ IsInf(b) /\ a.s = b.s
    ELSE Abs(Fixed(a) - Fixed(b)) <= (128 + 10 * Abs(Fixed(b))) \div 1000000

(* numpy.allclose(a, b, rtol=1e-5, atol=1e-6) on two arrays of one length *)
AllClose(as, bs) == \A i \in 1..Len(as) : IsClose(as[i], bs[i])

(* The values of an array as integers in one common unit.  float64 keeps 53
   bits, so beside a fixed value (at least 2^-7) a tiny one (below 2^-126)
   vanishes in every sum numpy.corrcoef forms; an array of tiny values alone
   is taken in units of 2^-149. *)
Numeric(vs) ==
    IF \E i \in 1..Len(vs) : ~IsTiny(vs[i])
    THEN [i \in 1..Len(vs) |-> Fixed(vs[i])]
    ELSE [i \in 1..Len(vs) |-> TinyUnits(vs[i])]

(* The same array shifted to start at 0 and divided by the common divisor of
   its entries: the correlation coefficient is unchanged by both. *)
Divided(ns, g) == IF g = 0 THEN ns ELSE [i \in 1..Len(ns) |-> ns[i] \div g]

Shifted(ns, lo) == [i \in 1..Len(ns) |-> ns[i] - lo]

DividedByGcd(ns) == Divided(ns, SeqGcd(ns))

Reduced(ns) == DividedByGcd(Shifted(ns, SeqMin(ns)))

(* numpy.corrcoef(xs, ys)[0, 1] > 0.99.  A NaN or an infinity in either array,
   a single observation, or a constant array make the coefficient NaN, and
   the comparison false. *)
(* r > 0.99 for r = cov / sqrt(vx * vy):  cov > 0 and cov^2 / (vx * vy) > 0.9801 *)
Above99(cov, vx, vy) ==
    /\ vx > 0
    /\ vy > 0
    /\ cov > 0
    /\ FracGT(cov * cov, vx * vy, 9801, 10000)

(* n times the covariance of two integer arrays of length n, times n again *)
Covariance(n, x, y) ==
    n * SeqSum([i \in 1..n |-> x[i] * y[i]]) - SeqSum(x) * SeqSum(y)

PearsonAbove99(n, x, y) ==
    Above99(Covariance(n, x, y), Covariance(n, x, x), Covariance(n, y, y))

HasNonFinite(vs) == \E i \in 1..Len(vs) : IsNaN(vs[i]) \/ IsInf(vs[i])

CorrelationAbove99(xs, ys) ==
    IF Len(xs) = 0 \/ Len(xs) # Len(ys) THEN FALSE
    ELSE IF HasNonFinite(xs) \/ HasNonFinite(ys) THEN FALSE
    ELSE PearsonAbove99(Len(xs), Reduced(Numeric(xs)), Reduced(Numeric(ys)))

----------------------------------------------------------------------------
(* float64 header fields: the bit fields of eight little-endian bytes.      *)
(* ml holds the low four bytes of the fraction, most significant first.     *)

DecodeF64(bs) ==
    [s  |-> bs[8] \div 128,
     e  |-> ((bs[8] % 128) * 16) + (bs[7] \div 16),
     mh |-> ((bs[7] % 16) * 65536) + (bs[6] * 256) + bs[5],
     ml |-> << bs[4], bs[3], bs[2], bs[1] >>]

RECURSIVE LexLess(_, _)
LexLess(a, b) ==
    IF a = << >> THEN FALSE
    ELSE IF Head(a) # Head(b) THEN Head(a) < Head(b)
    ELSE LexLess(Tail(a), Tail(b))

(* Magnitude of a float64 as a tuple ordered like the value *)
Mag64(d) == << d.e, d.mh >> \o d.ml

IsNaN64(d) == d.e = 2047 /\ (d.mh # 0 \/ d.ml # << 0, 0, 0, 0 >>)

(* 1e10 is 0x4202A05F20000000, 1e6 is 0x412E848000000000 *)
AbsAbove1e10(d) == ~IsNaN64(d) /\ LexLess(<< 1056, 172127, 32, 0, 0, 0 >>, Mag64(d))

AbsBelow1e6(d) == ~IsNaN64(d) /\ LexLess(Mag64(d), << 1042, 951424, 0, 0, 0, 0 >>)

(* 1e6 as a float32 is 0x49742400 *)
AbsBelow1e6F32(f) == ~IsNaN(f) /\ LexLess(<< f.e, f.m >>, << 146, 7611392 >>)

(* A header X value of magnitude below 1e6 in half units (2 * value, cut
   towards zero); exact when HalfExact holds. *)
HalfUnits64(d) ==
    IF d.e < 1022 THEN 0
    ELSE Signed(d, Pow2(d.e - 1022) + d.mh \div Pow2(1042 - d.e))

HalfUnits32(f) ==
    IF f.e < 126 THEN 0
    ELSE Signed(f, (8388608 + f.m) \div Pow2(149 - f.e))

(* The decoded header value: whether its magnitude is below 1e6, and then
   its value in half units. *)
XNum64(d) == [small |-> AbsBelow1e6(d), q |-> IF AbsBelow1e6(d) THEN HalfUnits64(d) ELSE 0]

XNum32(f) == [small |-> AbsBelow1e6F32(f), q |-> IF AbsBelow1e6F32(f) THEN HalfUnits32(f) ELSE 0]

XConst(q) == [small |-> TRUE, q |-> q]

----------------------------------------------------------------------------
(* Program constants *)

(* the header block: "if len(file_data) < 512", y_data_start = 512 *)
HeaderSize == 512

(* bytes per sample: y_data_size = fnpts * 4 *)
SampleSize == 4

(* for offset in [512, 256, 128, 64, 32] *)
CandidateOffsets == << 512, 256, 128, 64, 32 >>

(* np.linspace(400, 4000, 1000): the placeholder axis and its length *)
FallbackPoints == 1000

FallbackFirst == 400

FallbackLast == 4000

UnitWavenumber == "cm-1"

UnitNanometre == "nm"

UnitMicron == "um"

UnitUnset == "unset"

----------------------------------------------------------------------------
(* x_values: numpy.linspace(first, last, num)[:len], values in half units *)

EmptyAxis == [first |-> 0, last |-> 0, num |-> 0, len |-> 0]

(* numpy.linspace(a, b, n) *)
Linspace(a, b, n) == [first |-> a, last |-> b, num |-> n, len |-> n]

(* x_values[i] for 0 <= i < len; linspace(a, b, 1) is [a] *)
AxisAt(x, i) ==
    IF x.num <= 1 \/ i = 0 THEN x.first
    ELSE IF i = x.num - 1 THEN x.last
    ELSE x.first + (i * (x.last - x.first)) \div (x.num - 1)

AxisFirst(x) == AxisAt(x, 0)

AxisLast(x) == AxisAt(x, x.len - 1)

(* x_values[:k] *)
AxisTake(x, k) == [x EXCEPT !.len = Min(x.len, k)]

(* 4 * numpy.mean(x_values): the mean of an evenly spaced run is the mean of
   its ends, and the ends are in half units *)
AxisMean4(x) == AxisFirst(x) + AxisLast(x)

----------------------------------------------------------------------------
(* SPCFile._guess_units_from_range and SPCFile._detect_x_units *)

(* Lines 289-304, on 4 * x_mean and 2 * x_range *)
RangeRules(mean4, range2) ==
    IF 4 * 200 <= mean4 /\ mean4 <= 4 * 1000 /\ range2 < 2 * 2000 THEN UnitNanometre
    ELSE IF 4 * 1000 <= mean4 /\ mean4 <= 4 * 3000 /\ range2 < 2 * 3000 THEN UnitNanometre
    ELSE IF 4 * 2 <= mean4 /\ mean4 <= 4 * 30 /\ range2 < 2 * 50 THEN UnitMicron
    ELSE IF 4 * 400 <= mean4 /\ mean4 <= 4 * 15000 THEN UnitWavenumber
    ELSE IF mean4 < 4 * 100 THEN UnitMicron
    ELSE IF mean4 < 4 * 4000 THEN UnitNanometre
    ELSE UnitWavenumber

(* Variant of GuessUnitsFromRange: the range is taken between the first two
   values *)
GuessUnitsFromStep(x) ==
    IF x.len = 0 THEN UnitWavenumber
    ELSE RangeRules(AxisMean4(x), AxisAt(x, 1) - AxisFirst(x))

GuessUnitsFromRange(x) ==
    IF x.len = 0 THEN UnitWavenumber
    ELSE RangeRules(AxisMean4(x), AxisLast(x) - AxisFirst(x))

(* Variant of TypeRules: type 5 is labelled without looking at the mean *)
TypeRulesNoMean(fexper, mean4, x) ==
    IF fexper = 4 THEN UnitWavenumber
    ELSE IF fexper = 5 \/ fexper = 6 THEN UnitNanometre
    ELSE GuessUnitsFromRange(x)

(* Lines 258-269, on fexper and 4 * x_mean *)
TypeRules(fexper, mean4, x) ==
    IF fexper = 4 THEN UnitWavenumber
    ELSE IF fexper = 5
         THEN (IF mean4 > 4 * 1000 THEN UnitNanometre ELSE UnitWavenumber)
    ELSE IF fexper = 6 THEN UnitNanometre
    ELSE GuessUnitsFromRange(x)

DetectXUnits(header, x) ==
    IF ~header.set THEN GuessUnitsFromRange(x)
    ELSE TypeRules(header.fexper, IF x.len > 0 THEN AxisMean4(x) ELSE 0, x)

----------------------------------------------------------------------------
(* The SPCFile object *)

(* self.header = {} *)
EmptyHeader ==
    [set |-> FALSE, ftflgs |-> 0, fversn |-> 0, fexper |-> 0, fexp |-> 0,
     fnpts |-> 0, ffirst |-> XConst(0), flast |-> XConst(0), fnsub |-> 0]

NoData == [none |-> TRUE, bytes |-> << >>]

Data(b) == [none |-> FALSE, bytes |-> b]

(* the truth value of self.original_data: None and b'' are both false *)
Truthy(d) == ~d.none /\ Len(d.bytes) > 0

(* SPCFile.__init__ before parse_file is called *)
FreshObject(original) ==
    [header |-> EmptyHeader, x_values |-> EmptyAxis, y_values |-> << >>,
     x_unit |-> UnitUnset, original_data |-> original]

----------------------------------------------------------------------------
(* SPCFile.parse_file *)

ErrTooSmall == "File too small to be a valid SPC file"

ErrNoYData == "Could not read Y data"

ErrIndex == "index 0 is out of bounds for axis 0 with size 0"

(* Lines 31-57: the header fields *)
HeaderFields(b, ffirst, flast) ==
    [set    |-> TRUE,
     ftflgs |-> b[1],
     fversn |-> b[2],
     fexper |-> b[3],
     fexp   |-> b[4],
     fnpts  |-> U32(Slice(b, 4, 8)),
     ffirst |-> ffirst,
     flast  |-> flast,
     fnsub  |-> Max(1, U32(Slice(b, 28, 32)))]

(* Lines 38-44: doubles, unless either is above 1e10 in magnitude *)
HeaderRange(b, d1, d2) ==
    IF AbsAbove1e10(d1) \/ AbsAbove1e10(d2)
    THEN HeaderFields(b, XNum32(DecodeF32(Slice(b, 8, 12))), XNum32(DecodeF32(Slice(b, 12, 16))))
    ELSE HeaderFields(b, XNum64(d1), XNum64(d2))

ParseHeader(b) == HeaderRange(b, DecodeF64(Slice(b, 8, 16)), DecodeF64(Slice(b, 16, 24)))

(* Variant of BuildAxis: the placeholder always has 1000 points *)
BuildAxisThousand(h) ==
    IF h.fnpts > 0 /\ h.ffirst.small /\ h.flast.small
    THEN Linspace(h.ffirst.q, h.flast.q, h.fnpts)
    ELSE Linspace(2 * FallbackFirst, 2 * FallbackLast, FallbackPoints)

(* Variant of BuildAxis: the header range is used with bit 0 of typeFlags
   set only *)
BuildAxisEvenOnly(h) ==
    IF h.ftflgs % 2 = 1 /\ h.fnpts > 0 /\ h.ffirst.small /\ h.flast.small
    THEN Linspace(h.ffirst.q, h.flast.q, h.fnpts)
    ELSE Linspace(2 * FallbackFirst, 2 * FallbackLast,
                  IF h.fnpts > 0 THEN h.fnpts ELSE FallbackPoints)

(* Lines 59-78: both branches of the TSPREC test build the same axis *)
BuildAxis(h) ==
    IF h.fnpts > 0 /\ h.ffirst.small /\ h.flast.small
    THEN Linspace(h.ffirst.q, h.flast.q, h.fnpts)
    ELSE Linspace(2 * FallbackFirst, 2 * FallbackLast,
                  IF h.fnpts > 0 THEN h.fnpts ELSE FallbackPoints)

(* fnpts * 4 as it is compared with len(file_data).  Python integers do not
   overflow; a size above len stands for every larger one, since each test of
   it against len comes out the same. *)
SliceSize(fnpts, len) == IF fnpts > len THEN len + 1 ELSE fnpts * SampleSize

(* Variant of YDataStart: the samples are always expected at offset 512 *)
YDataStartFixed(h, len) == HeaderSize

(* Lines 82-87 *)
YDataStart(h, len) ==
    IF h.ftflgs % 2 = 1 THEN HeaderSize ELSE HeaderSize + SliceSize(h.fnpts, len)

(* Lines 97-103: the first candidate offset whose slice fits, 0 when none does *)
RECURSIVE FirstFitting(_, _, _)
FirstFitting(cands, size, len) ==
    IF cands = << >> THEN 0
    ELSE IF Head(cands) + size <= len THEN Head(cands)
    ELSE FirstFitting(Tail(cands), size, len)

(* Lines 89-117: where the samples are read from and how many.  at = -1: no
   samples are read (fnpts = 0); raised: the ValueError of line 117. *)
Located(at, n, rest, raised) == [at |-> at, n |-> n, rest |-> rest, raised |-> raised]

LocateFrom(fnpts, len, start, cand, points) ==
    IF fnpts = 0 THEN Located(-1, 0, FALSE, FALSE)
    ELSE IF start + SliceSize(fnpts, len) <= len THEN Located(start, fnpts, FALSE, FALSE)
    ELSE IF cand # 0 THEN Located(cand, fnpts, FALSE, FALSE)
    ELSE IF points > 0 THEN Located(HeaderSize, points, TRUE, FALSE)
    ELSE Located(-1, 0, TRUE, TRUE)

LocateY(h, len) ==
    LocateFrom(h.fnpts, len, YDataStart(h, len),
               FirstFitting(CandidateOffsets, SliceSize(h.fnpts, len), len),
               (len - HeaderSize) \div SampleSize)

(* Lines 119-123 *)
SanityLength(x, y) == Min(x.len, Len(y))

(* Lines 125-128: the unit, and the print that indexes x_values[0] *)
ParseEnd(h, loc, x, y) ==
    [raised   |-> IF loc.raised THEN ErrNoYData
                  ELSE IF x.len = 0 THEN ErrIndex ELSE "",
     header   |-> h,
     x_values |-> x,
     y_values |-> y,
     x_unit   |-> DetectXUnits(h, x),
     y_at     |-> loc.at,
     rest     |-> loc.rest,
     x_built  |-> BuildAxis(h)]

(* Variant of ParseSanity: the lengths are left as they were read *)
ParseUnchecked(h, loc, x, y) == ParseEnd(h, loc, x, y)

(* Lines 119-123: both cut to the shorter length *)
ParseSanity(h, loc, x, y) ==
    ParseEnd(h, loc, AxisTake(x, SanityLength(x, y)), SubSeq(y, 1, SanityLength(x, y)))

(* Lines 113-115: after the last-resort read the axis is rebuilt between its
   ends to the number of samples read *)
ReadjustAxis(loc, x, y) ==
    IF loc.rest /\ ~loc.raised /\ Len(y) # x.len
    THEN Linspace(AxisFirst(x), AxisLast(x), Len(y))
    ELSE x

ParseSamples(h, loc, x, y) == ParseSanity(h, loc, ReadjustAxis(loc, x, y), y)

ReadY(b, loc) == IF loc.at < 0 THEN << >> ELSE FromBuffer(b, loc.at, loc.n)

ParseLocated(b, h, loc) == ParseSamples(h, loc, BuildAxis(h), ReadY(b, loc))

ParseBody(b, h) == ParseLocated(b, h, LocateY(h, Len(b)))

(* The try block, lines 26-128.  raised = "" when it runs to its end. *)
ParseTry(b) ==
    IF Len(b) < HeaderSize
    THEN [raised |-> ErrTooSmall, header |-> EmptyHeader, x_values |-> EmptyAxis,
          y_values |-> << >>, x_unit |-> UnitUnset, y_at |-> -1, rest |-> FALSE,
          x_built |-> EmptyAxis]
    ELSE ParseBody(b, ParseHeader(b))

(* The except branch, lines 130-140; rnd is what np.random.normal returned *)
ParseFallback(rnd) ==
    [header   |-> [set |-> TRUE, ftflgs |-> 1, fversn |-> 1, fexper |-> 1, fexp |-> 0,
                   fnpts |-> Len(rnd), ffirst |-> XConst(2 * FallbackFirst),
                   flast |-> XConst(2 * FallbackLast), fnsub |-> 1],
     x_values |-> Linspace(2 * FallbackFirst, 2 * FallbackLast, FallbackPoints),
     y_values |-> rnd,
     x_unit   |-> UnitWavenumber]

Assign(obj, t) ==
    [obj EXCEPT !.header = t.header, !.x_values = t.x_values,
                !.y_values = t.y_values, !.x_unit = t.x_unit]

(* parse_file as a whole: the attributes it leaves on the object, t being
   what the try block did *)
ParseFile(obj, t, rnd) ==
    IF t.raised = "" THEN Assign(obj, t) ELSE Assign(obj, ParseFallback(rnd))

(* SPCFile(file_data), lines 13-21: parse_file runs only on a non-empty buffer *)
Construct(original, t, rnd) ==
    IF Truthy(original) THEN ParseFile(FreshObject(original), t, rnd)
    ELSE FreshObject(original)

----------------------------------------------------------------------------
(* SPCFile._create_simple_spc_file *)

(* the largest p with 2^p <= n, for n >= 1 *)
RECURSIVE Log2(_)
Log2(n) == IF n < 2 THEN 0 ELSE 1 + Log2(n \div 2)

(* struct.pack('<f', v) of an axis value v given in half units: the float32
   of q / 2, exact for |q| < 2^24 *)
F32OfHalfUnits(q) ==
    IF q = 0 THEN [s |-> 0, e |-> 0, m |-> 0]
    ELSE [s |-> IF q < 0 THEN 1 ELSE 0,
          e |-> 126 + Log2(Abs(q)),
          m |-> (Abs(q) - Pow2(Log2(Abs(q)))) * Pow2(23 - Log2(Abs(q)))]

(* header[0] = ftflgs | 0x01 *)
WithBit0(flags) == IF flags % 2 = 1 THEN flags ELSE flags + 1

(* Lines 382-391: the first four header bytes *)
SimpleTypeBytes(header) ==
    IF header.set THEN << WithBit0(header.ftflgs), header.fversn, header.fexper, header.fexp >>
    ELSE << 1, 1, 1, 0 >>

(* Lines 397-402: first_x and last_x, in half units *)
SimpleFirstX(x) == IF x.len > 0 THEN AxisFirst(x) ELSE 2 * FallbackFirst

SimpleLastX(x) == IF x.len > 0 THEN AxisLast(x) ELSE 2 * FallbackLast

(* Lines 376-411 *)
CreateSimpleSpcFile(o, y_values) ==
    SimpleTypeBytes(o.header) \o PackU32(Len(y_values))
        \o EncodeF32(F32OfHalfUnits(SimpleFirstX(o.x_values)))
        \o EncodeF32(F32OfHalfUnits(SimpleLastX(o.x_values)))
        \o PackU32(1) \o Zeros(HeaderSize - 20)
        \o ToBytes(AsFloat32(y_values))

----------------------------------------------------------------------------
(* SPCFile.write_file and SPCFile._find_and_replace_y_data *)

ErrCannotPreserve == "Cannot preserve original SPC structure - file would lose unit information"

ErrNoOriginal == "No original data to preserve"

ErrNotLocated == "Could not locate Y data in original file"

Returned(data, offset, via) ==
    [kind |-> "bytes", data |-> data, error |-> "", offset |-> offset, via |-> via]

Raised(msg) ==
    [kind |-> "error", data |-> << >>, error |-> msg, offset |-> -1, via |-> "none"]

(* Variant of Patched: the bytes after the replaced slice are not copied *)
PatchedDroppingTail(obj, offset, new_y) ==
    Slice(obj.original_data.bytes, 0, offset) \o ToBytes(AsFloat32(new_y))

(* Lines 171-172 and 214-215: the copy of the original with the slice at
   offset replaced by the new samples as float32 bytes *)
Patched(obj, offset, new_y) ==
    SliceAssign(obj.original_data.bytes, offset,
                offset + Len(new_y) * SampleSize, ToBytes(AsFloat32(new_y)))

(* Lines 157-167: the slice at a candidate offset fits and is close to the
   parsed samples *)
MatchesAt(obj, offset, n) ==
    /\ offset + n * SampleSize <= Len(obj.original_data.bytes)
    /\ Len(obj.y_values) = n
    /\ AllClose(FromBuffer(obj.original_data.bytes, offset, n), obj.y_values)

(* Lines 156-180: the first candidate that matches, 0 when none does *)
RECURSIVE FirstMatching(_, _, _)
FirstMatching(cands, obj, n) ==
    IF cands = << >> THEN 0
    ELSE IF MatchesAt(obj, Head(cands), n) THEN Head(cands)
    ELSE FirstMatching(Tail(cands), obj, n)

(* Line 202: range(0, len(self.original_data) - y_data_size, 4) *)
ScanOffsets(len, size) == { o \in 0..(len - size - 1) : o % 4 = 0 }

(* Lines 204-212 *)
CorrelatesAt(obj, offset, n) ==
    /\ Len(obj.y_values) = n
    /\ CorrelationAbove99(FromBuffer(obj.original_data.bytes, offset, n), obj.y_values)

Lowest(hits) == CHOOSE o \in hits : \A p \in hits : o <= p

(* Variant of ReplaceAtFirst: with no correlated slice the samples go to the
   standard offset when they fit there *)
ReplaceOrGuess(obj, new_y, hits) ==
    IF hits # {} THEN Returned(Patched(obj, Lowest(hits), new_y), Lowest(hits), "scan")
    ELSE IF HeaderSize + Len(new_y) * SampleSize <= Len(obj.original_data.bytes)
    THEN Returned(Patched(obj, HeaderSize, new_y), HeaderSize, "guess")
    ELSE Raised(ErrNotLocated)

ReplaceAtFirst(obj, new_y, hits) ==
    IF hits = {} THEN Raised(ErrNotLocated)
    ELSE Returned(Patched(obj, Lowest(hits), new_y), Lowest(hits), "scan")

(* Lines 193-220 *)
FindAndReplaceYData(obj, new_y) ==
    IF ~Truthy(obj.original_data) THEN Raised(ErrNoOriginal)
    ELSE ReplaceAtFirst(obj, new_y,
           { o \in ScanOffsets(Len(obj.original_data.bytes), Len(new_y) * SampleSize) :
               CorrelatesAt(obj, o, Len(new_y)) })

(* Lines 156-183: patch at the matching candidate, or go on to the scan *)
WriteAt(obj, new_y, hit) ==
    IF hit # 0 THEN Returned(Patched(obj, hit, new_y), hit, "exact")
    ELSE FindAndReplaceYData(obj, new_y)

(* Variant of WriteFile: new samples of another length are cut or padded with
   zeros to the parsed length *)
Resized(ys, n) ==
    [i \in 1..n |-> IF i <= Len(ys) THEN ys[i] ELSE [s |-> 0, e |-> 0, m |-> 0, r |-> 0]]

WriteFileResizing(obj, new_y) ==
    IF Truthy(obj.original_data)
    THEN WriteAt(obj, Resized(new_y, Len(obj.y_values)),
                 FirstMatching(CandidateOffsets, obj, Len(obj.y_values)))
    ELSE Raised(ErrCannotPreserve)

(* Variant of WriteFile: without an original buffer a blank header block
   followed by the samples is returned *)
WriteFileSynthesizing(obj, new_y) ==
    IF ~Truthy(obj.original_data)
    THEN Returned(Zeros(HeaderSize) \o ToBytes(AsFloat32(new_y)), HeaderSize, "synth")
    ELSE IF Len(new_y) = Len(obj.y_values)
    THEN WriteAt(obj, new_y, FirstMatching(CandidateOffsets, obj, Len(new_y)))
    ELSE Raised(ErrCannotPreserve)

(* Variant of AfterWrite: the new samples are kept on the object *)
AfterWriteStoring(o, new_y) == [o EXCEPT !.y_values = new_y]

(* Lines 142-220: the attributes of the object after write_file, which
   assigns to none of them: it works on bytearray(self.original_data) and on
   new_y_values.astype(np.float32), both copies *)
AfterWrite(o, new_y) == o

(* Lines 142-191 *)
WriteFile(obj, new_y) ==
    IF Truthy(obj.original_data) /\ Len(new_y) = Len(obj.y_values)
    THEN WriteAt(obj, new_y, FirstMatching(CandidateOffsets, obj, Len(new_y)))
    ELSE Raised(ErrCannotPreserve)

----------------------------------------------------------------------------
(* Inputs *)

(* the largest point count below the big one; the most whole samples after
   the header block *)
MaxPoints == 3

MaxWords == 6

FZero == [s |-> 0, e |-> 0, m |-> 0]

FNegZero == [s |-> 1, e |-> 0, m |-> 0]

FDenormal == [s |-> 0, e |-> 0, m |-> 1]

FOne == [s |-> 0, e |-> 127, m |-> 0]

FTwo == [s |-> 0, e |-> 128, m |-> 0]

FThree == [s |-> 0, e |-> 128, m |-> 4194304]

FNaN == [s |-> 0, e |-> 255, m |-> 4194304]

(* the smallest point count whose samples fit at no candidate offset of any
   of the buffers below *)
BigPoints == ((HeaderSize - 32) \div SampleSize) + MaxWords + 1

PointCounts == (0..MaxPoints) \cup {BigPoints}

(* typeFlags and experimentType.  Bit 0 clear goes with experimentType 0 only:
   the first header word then stays small enough for the correlation
   arithmetic, which is reached only on buffers with bit 0 clear. *)
HeaderKinds ==
    { [flags |-> 0, exper |-> 0], [flags |-> 1, exper |-> 0], [flags |-> 1, exper |-> 4] }

(* bytes 8..24: firstX and lastX both 0.0, or the doubles 400.0 and 4000.0 *)
XZeroField == Zeros(16)

XDoubleField == << 0, 0, 0, 0, 0, 0, 121, 64, 0, 0, 0, 0, 0, 64, 175, 64 >>

XFields == { XZeroField, XDoubleField }

(* bytes 8..24: the doubles 1048576.0 (above 1e6) and 4000.0 *)
XBigField == << 0, 0, 0, 0, 0, 0, 48, 65, 0, 0, 0, 0, 0, 64, 175, 64 >>

(* the sample words after the header block repeat one of these runs *)
PayloadRuns ==
    { << FZero >>, << FOne, FTwo >>, << FZero, FDenormal >>, << FNegZero, FZero >>,
      << FOne, FOne, FTwo >>, << FTwo, FOne, FOne, FTwo >>, << FNaN, FOne >> }

Cycle(run, k) == [i \in 1..k |-> run[((i - 1) % Len(run)) + 1]]

(* bytes left over after the last whole sample *)
TailBytes == { 0, 3 }

ShortLengths == { 0, HeaderSize - 1 }

HeaderBlock(kind, npts, xfield) ==
    << kind.flags, 1, kind.exper, 0 >> \o PackU32(npts) \o xfield \o Zeros(4)
        \o PackU32(1) \o Zeros(HeaderSize - 32)

InputBuffers ==
    { HeaderBlock(kind, npts, xf) \o ToBytes(Cycle(run, k)) \o Zeros(r) :
        kind \in HeaderKinds, npts \in PointCounts, xf \in XFields,
        run \in PayloadRuns, k \in 0..MaxWords, r \in TailBytes }
    \cup
    { HeaderBlock(kind, npts, XBigField) \o ToBytes(Cycle(<< FOne, FTwo >>, k)) :
        kind \in HeaderKinds, npts \in PointCounts, k \in 0..MaxWords }
    \cup
    { Slice(HeaderBlock(kind, npts, XZeroField), 0, l) :
        kind \in HeaderKinds, npts \in PointCounts, l \in ShortLengths }

(* typeFlags bytes of a second copy of a file: bit 0 (even spacing) and
   bit 7 (explicit X array) clear or set *)
FlagBytes == { 0, 1, 128, 129 }

(* the buffer b with f as its typeFlags byte *)
WithFlags(b, f) == << f >> \o Tail(b)

(* what np.random.normal(100, 20, 1000) may return: float64 samples *)
RandomA == [s |-> 0, e |-> 133, m |-> 4718592, r |-> 1]

RandomB == [s |-> 0, e |-> 133, m |-> 2097152, r |-> 1]

RandomDraws ==
    { [i \in 1..FallbackPoints |-> IF i % 2 = 1 THEN RandomA ELSE RandomB],
      [i \in 1..FallbackPoints |-> IF i % 2 = 1 THEN RandomB ELSE RandomA] }

(* the float64 arrays a caller passes to write_file *)
NewSample == [s |-> 0, e |-> 128, m |-> 4194304, r |-> 1]

Constant(n, v) == [i \in 1..n |-> v]

NewYChoices(y) ==
    { y, Constant(Len(y), NewSample), Constant(Len(y), Sample(FZero)),
      Constant(Len(y) + 1, NewSample) }
    \cup (IF Len(y) > 0 THEN { SubSeq(y, 1, Len(y) - 1) } ELSE {})

(* objects filled in by hand, as the test scripts do: header, axis (in half
   units) and float64 samples *)
HandHeader(exper, n, a, b) ==
    [set |-> TRUE, ftflgs |-> 1, fversn |-> 1, fexper |-> exper, fexp |-> 0,
     fnpts |-> n, ffirst |-> XConst(a), flast |-> XConst(b), fnsub |-> 1]

(* 1: general, 4: FT-IR, 5: NIR, 6: UV-VIS *)
HandTypes == { 1, 4, 5, 6 }

(* the ends of the axis, in half units: 400..4000, 800..2500, 200..800 and
   2.5..25 are the ranges of test_units.py *)
HandRanges ==
    { << 800, 8000 >>, << 1600, 5000 >>, << 400, 1600 >>, << 5, 50 >>,
      << 4000, 4800 >>, << 8000, 800 >>, << 1600, 2400 >>, << -1800, 4200 >>,
      << 100, 120 >>, << 200, 280 >>, << 32000, 36000 >> }

HandCounts == { 2, 3 }

HandSamples(n) == [i \in 1..n |-> IF i % 2 = 1 THEN RandomA ELSE RandomB]

HandDocument(exper, r, n) ==
    [header |-> HandHeader(exper, n, r[1], r[2]), x_values |-> Linspace(r[1], r[2], n),
     y_values |-> HandSamples(n)]

HandFilled ==
    { HandDocument(exper, r, n) : exper \in HandTypes, r \in HandRanges, n \in HandCounts }

----------------------------------------------------------------------------
(* The state machine *)

VARIABLES
    pc,       \* "idle": no object; "ready": an object exists; "returned": write_file has just ended;
              \* "checked": a second object was built, or the unit was detected again
    obj,      \* the attributes of the SPCFile object
    parsed,   \* what the constructor's parse_file did: the error it caught, the offset it read from,
              \* whether it read everything after the header, the axis it built from the header
    call,     \* the last write_file call: its argument and how it ended
    other,    \* a second SPCFile object: built from the same buffer, from the written buffer or
              \* from the synthesized one
    detected  \* what _detect_x_units() returned to the caller, "" before it is called

vars == << pc, obj, parsed, call, other, detected >>

NoParse == [ran |-> FALSE, error |-> "", y_at |-> -1, rest |-> FALSE, x_built |-> EmptyAxis]

NoCall == [new_y |-> << >>, result |-> [kind |-> "none", data |-> << >>, error |-> "", offset |-> -1, via |-> "none"]]

NoOther == [of |-> "none", obj |-> FreshObject(NoData), trace |-> NoParse]

Init ==
    /\ pc = "idle"
    /\ obj = FreshObject(NoData)
    /\ parsed = NoParse
    /\ call = NoCall
    /\ other = NoOther
    /\ detected = ""

(* spc_file = SPCFile() *)
New ==
    /\ pc = "idle"
    /\ pc' = "ready"
    /\ obj' = FreshObject(NoData)
    /\ parsed' = NoParse
    /\ UNCHANGED << call, other, detected >>

(* np.random.normal is called in the except branch only *)
DrawsFor(t) == IF t.raised = "" THEN { << >> } ELSE RandomDraws

Trace(original, t) ==
    IF Truthy(original)
    THEN [ran |-> TRUE, error |-> t.raised, y_at |-> t.y_at, rest |-> t.rest, x_built |-> t.x_built]
    ELSE NoParse

LoadBuffer(b, t) ==
    /\ \E rnd \in DrawsFor(t) : obj' = Construct(Data(b), t, rnd)
    /\ parsed' = Trace(Data(b), t)

(* spc_file = SPCFile(file_data) *)
Load ==
    /\ pc = "idle"
    /\ \E b \in InputBuffers : LoadBuffer(b, ParseTry(b))
    /\ pc' = "ready"
    /\ UNCHANGED << call, other, detected >>

(* spc_file.x_values = ...; spc_file.y_values = ...; spc_file.header = {...} *)
SetFields ==
    /\ pc = "ready"
    /\ obj = FreshObject(NoData)
    /\ \E f \in HandFilled :
         obj' = [obj EXCEPT !.header = f.header, !.x_values = f.x_values,
                            !.y_values = f.y_values]
    /\ UNCHANGED << pc, parsed, call, other, detected >>

(* spc_file.write_file(new_y_values) *)
Write ==
    /\ pc = "ready"
    /\ \E new_y \in NewYChoices(obj.y_values) :
         /\ call' = [new_y |-> new_y, result |-> WriteFile(obj, new_y)]
         /\ obj' = AfterWrite(obj, new_y)
    /\ pc' = "returned"
    /\ UNCHANGED << parsed, other, detected >>

(* a second object built from the buffer b *)
SecondFrom(of, b, t) ==
    \E rnd \in DrawsFor(t) :
        other' = [of |-> of, obj |-> Construct(Data(b), t, rnd), trace |-> Trace(Data(b), t)]

(* SPCFile(original_data) on a buffer that was parsed before: app.py reads
   the upload with read_spc_file and parses it again when saving *)
Reparse ==
    /\ pc = "ready"
    /\ ~obj.original_data.none
    /\ SecondFrom("original", obj.original_data.bytes, ParseTry(obj.original_data.bytes))
    /\ pc' = "checked"
    /\ UNCHANGED << obj, parsed, call, detected >>

(* spc_verify = SPCFile(new_data) on the buffer write_file returned *)
Verify ==
    /\ pc = "returned"
    /\ call.result.kind = "bytes"
    /\ SecondFrom("written", call.result.data, ParseTry(call.result.data))
    /\ pc' = "checked"
    /\ UNCHANGED << obj, parsed, call, detected >>

ReflagFrom(b) == SecondFrom("reflagged", b, ParseTry(b))

(* SPCFile(file_data) on a file that differs from the one the object was
   built from in the typeFlags byte only *)
Reflag ==
    /\ pc = "ready"
    /\ Truthy(obj.original_data)
    /\ \E f \in FlagBytes \ { obj.original_data.bytes[1] } :
           ReflagFrom(WithFlags(obj.original_data.bytes, f))
    /\ pc' = "checked"
    /\ UNCHANGED << obj, parsed, call, detected >>

SynthesizeFrom(b) == SecondFrom("synthesized", b, ParseTry(b))

(* roundtrip_spc = SPCFile(spc_file._create_simple_spc_file(y_values)) on an
   object without a buffer *)
Synthesize ==
    /\ pc = "ready"
    /\ obj.original_data.none
    /\ SynthesizeFrom(CreateSimpleSpcFile(obj, obj.y_values))
    /\ pc' = "checked"
    /\ UNCHANGED << obj, parsed, call, detected >>

(* detected_unit = spc_file._detect_x_units() on an object without a buffer *)
DetectUnits ==
    /\ pc = "ready"
    /\ obj.original_data.none
    /\ detected' = DetectXUnits(obj.header, obj.x_values)
    /\ pc' = "checked"
    /\ UNCHANGED << obj, parsed, call, other >>

(* the caller takes the buffer, or handles the exception, or is done with
   the second object *)
Respond ==
    /\ pc \in { "returned", "checked" }
    /\ pc' = "ready"
    /\ call' = NoCall
    /\ other' = NoOther
    /\ detected' = ""
    /\ UNCHANGED << obj, parsed >>

(* the object is dropped *)
Discard ==
    /\ pc = "ready"
    /\ pc' = "idle"
    /\ obj' = FreshObject(NoData)
    /\ parsed' = NoParse
    /\ UNCHANGED << call, other, detected >>

Next ==
    \/ New \/ Load \/ SetFields \/ Write \/ Reparse \/ Verify \/ Reflag
    \/ Synthesize \/ DetectUnits \/ Respond \/ Discard

Spec == Init /\ [][Next]_vars

----------------------------------------------------------------------------
(* Properties *)

(* the caller holds an SPCFile object *)
Held == pc \in { "ready", "returned", "checked" }

(* the object was constructed from a buffer, the empty one included *)
BuiltFromBuffer == Held /\ ~obj.original_data.none

Original == obj.original_data.bytes

(* write_file has just returned bytes *)
WroteBytes == pc = "returned" /\ call.result.kind = "bytes"

WroteError == pc = "returned" /\ call.result.kind = "error"

PatchEnd == call.result.offset + Len(call.new_y) * SampleSize

(* the pointCount field, bytes 4..8 of the buffer *)
PointCount(b) == U32(Slice(b, 4, 8))

(* C1: when write_file returns a buffer, it is as long as the original and
   equal to it at every position outside [offset, offset + 4*len(newY)), on
   the exact-match path and on the correlation-scan path alike. *)
C1_FrameEffect ==
    WroteBytes =>
        /\ Len(call.result.data) = Len(Original)
        /\ \A i \in 1..Len(Original) :
               (i <= call.result.offset \/ i > PatchEnd) => call.result.data[i] = Original[i]

(* C1: a scan-path write that changed the payload of a buffer with bytes on
   both sides of the replaced slice *)
C1_Witness ==
    /\ WroteBytes
    /\ call.result.via = "scan"
    /\ call.result.offset > 0
    /\ PatchEnd < Len(Original)
    /\ call.result.data # Original

(* C2: write_file given the parsed samples back returns, when it returns a
   buffer, the bytes the object was parsed from. *)
C2_IdentityRoundTrip ==
    (WroteBytes /\ parsed.ran /\ parsed.error = "" /\ call.new_y = obj.y_values)
        => call.result.data = Original

(* C3: the first 512 bytes of a buffer returned by write_file are those of
   the original. *)
C3_HeaderPreserved ==
    WroteBytes => Slice(call.result.data, 0, HeaderSize) = Slice(Original, 0, HeaderSize)

(* C4: write_file given samples of another length than the parsed ones ends
   in an error and returns no buffer. *)
C4_LengthMismatch ==
    (pc = "returned" /\ Len(call.new_y) # Len(obj.y_values))
        => (call.result.kind = "error" /\ call.result.data = << >>)

(* C4: a mismatched length on an object parsed from a buffer that holds its
   samples at the standard offset *)
C4_Witness ==
    /\ WroteError
    /\ parsed.ran /\ parsed.error = "" /\ parsed.y_at = HeaderSize
    /\ Len(call.new_y) = Len(obj.y_values) - 1
    /\ call.result.error = ErrCannotPreserve

(* a candidate offset holds a slice close to the parsed samples *)
SomeCandidateMatches ==
    \E k \in 1..Len(CandidateOffsets) : MatchesAt(obj, CandidateOffsets[k], Len(call.new_y))

(* a 4-byte aligned slice of the original correlates above 0.99 with the
   parsed samples *)
SomeSliceCorrelates ==
    \E o \in 0..(Len(Original) - Len(call.new_y) * SampleSize) :
        o % 4 = 0 /\ CorrelatesAt(obj, o, Len(call.new_y))

(* C5: with an original buffer, samples of the parsed length, no candidate
   offset that matches and no correlated slice, write_file ends in the error
   "Could not locate Y data in original file" and returns no buffer. *)
C5_NotLocated ==
    (/\ pc = "returned"
     /\ Truthy(obj.original_data)
     /\ Len(call.new_y) = Len(obj.y_values)
     /\ ~SomeCandidateMatches
     /\ ~SomeSliceCorrelates)
        => (/\ call.result.kind = "error"
            /\ call.result.error = ErrNotLocated
            /\ call.result.data = << >>)

(* C5: the samples were parsed from the standard offset of a buffer that
   holds them in full, and are not found there again *)
C5_Witness ==
    /\ WroteError
    /\ call.result.error = ErrNotLocated
    /\ parsed.ran /\ parsed.error = "" /\ parsed.y_at = HeaderSize
    /\ Len(obj.y_values) > 0
    /\ ~SomeCandidateMatches
    /\ ~SomeSliceCorrelates

(* C6: write_file on an object without an original buffer (none given, or
   the empty one) ends in an error and returns no buffer, whatever the
   length of the new samples. *)
C6_NoOriginal ==
    (pc = "returned" /\ ~Truthy(obj.original_data))
        => (call.result.kind = "error" /\ call.result.data = << >>)

(* C6: an object filled in by hand, written with samples of its own length *)
C6_Witness ==
    /\ WroteError
    /\ obj.original_data.none
    /\ Len(obj.y_values) > 0
    /\ Len(call.new_y) = Len(obj.y_values)

(* C7: no object with samples comes out of a buffer shorter than 512 bytes:
   the error reaches the caller. *)
C7_TooSmallRejected == ~(BuiltFromBuffer /\ Len(Original) < HeaderSize)

(* the buffer of C8: pointCount > 0, no candidate offset with room for the
   samples, fewer than 4 bytes after offset 512 *)
NoRoomForSamples(b) ==
    /\ Len(b) >= HeaderSize
    /\ PointCount(b) > 0
    /\ FirstFitting(CandidateOffsets, SliceSize(PointCount(b), Len(b)), Len(b)) = 0
    /\ Len(b) - HeaderSize < SampleSize

(* C8: no object comes out of a buffer that has no room for its samples: the
   error reaches the caller. *)
C8_NoPayloadRejected == ~(BuiltFromBuffer /\ NoRoomForSamples(Original))

(* C9: an object parsed from a buffer of at least 512 bytes has as many x
   values and as many y values as the pointCount field of the buffer says. *)
C9_LengthsArePointCount ==
    (BuiltFromBuffer /\ Len(Original) >= HeaderSize)
        => (/\ obj.x_values.len = PointCount(Original)
            /\ Len(obj.y_values) = PointCount(Original))

(* C10: every object has as many x values as y values. *)
C10_SameLength == obj.x_values.len = Len(obj.y_values)

(* C10: the object of a buffer with pointCount 0, where the lengths were cut
   to 0 and the except branch then filled both in *)
C10_Witness ==
    /\ Held
    /\ parsed.error = ErrIndex
    /\ PointCount(Original) = 0
    /\ obj.x_values.len = FallbackPoints
    /\ Len(obj.y_values) = FallbackPoints

(* the object was parsed from a buffer and the try block ran to its end *)
ParsedWell == Held /\ parsed.ran /\ parsed.error = ""

(* an array as np.float32 values *)
Rounded(ys) == [i \in 1..Len(ys) |-> Sample(AsFloat32(ys)[i])]

(* C11: the object parsed from a buffer that write_file returned has the new
   samples, as float32, for its y values, and the x values and the unit of
   the object that was written. *)
C11_WriteThenParse ==
    (pc = "checked" /\ other.of = "written" /\ parsed.ran /\ parsed.error = "")
        => (/\ other.obj.y_values = Rounded(call.new_y)
            /\ other.obj.x_values = obj.x_values
            /\ other.obj.x_unit = obj.x_unit)

(* C12: a write_file call leaves header, x_values, y_values, x_unit and
   original_data of its object as they were, whether it returns or raises. *)
C12_WriteKeepsObject == [][(pc = "ready" /\ pc' = "returned") => obj' = obj]_vars

(* C12: write_file returned a changed buffer for an object parsed from one *)
C12_Witness ==
    /\ WroteBytes
    /\ parsed.ran
    /\ call.result.data # Original
    /\ call.new_y # obj.y_values

(* C13: two objects parsed from the same buffer have equal header, x values,
   y values and unit. *)
C13_ParseIsAFunction ==
    (pc = "checked" /\ other.of = "original")
        => (/\ other.obj.header = obj.header
            /\ other.obj.x_values = obj.x_values
            /\ other.obj.y_values = obj.y_values
            /\ other.obj.x_unit = obj.x_unit)

(* lo <= mean <= hi, on 4 * mean *)
MeanWithin(mean4, lo, hi) == 4 * lo <= mean4 /\ mean4 <= 4 * hi

(* the range rules as C14 lists them, on 4 * mean and 2 * span, the span
   being last - first *)
ReferenceRange(mean4, span2) ==
    CASE MeanWithin(mean4, 200, 1000) /\ span2 < 2 * 2000 -> UnitNanometre
      [] ~(MeanWithin(mean4, 200, 1000) /\ span2 < 2 * 2000)
         /\ MeanWithin(mean4, 1000, 3000) /\ span2 < 2 * 3000 -> UnitNanometre
      [] OTHER ->
         IF MeanWithin(mean4, 2, 30) /\ span2 < 2 * 50 THEN UnitMicron
         ELSE IF MeanWithin(mean4, 400, 15000) THEN UnitWavenumber
         ELSE IF mean4 < 4 * 100 THEN UnitMicron
         ELSE IF mean4 < 4 * 4000 THEN UnitNanometre
         ELSE UnitWavenumber

ReferenceLabel(exper, mean4, span2) ==
    CASE exper = 4 -> UnitWavenumber
      [] exper = 5 -> IF mean4 > 4 * 1000 THEN UnitNanometre ELSE UnitWavenumber
      [] exper = 6 -> UnitNanometre
      [] OTHER -> ReferenceRange(mean4, span2)

ReferenceOf(o) ==
    ReferenceLabel(o.header.fexper, AxisMean4(o.x_values),
                   AxisLast(o.x_values) - AxisFirst(o.x_values))

Labels == { UnitWavenumber, UnitNanometre, UnitMicron }

(* C14: the unit _detect_x_units returns for an object with a header and a
   non-empty axis, and the unit parse_file leaves on an object, is the one
   the reference rule gives for its experiment type, mean and span, and is
   one of the three labels. *)
C14_ReferenceRule ==
    /\ (detected # "" /\ obj.header.set /\ obj.x_values.len > 0)
           => (detected = ReferenceOf(obj) /\ detected \in Labels)
    /\ ParsedWell => (obj.x_unit = ReferenceOf(obj) /\ obj.x_unit \in Labels)
    /\ detected # "" => detected \in Labels

(* C14: a general-type object over 2.5..25 labelled by the third range rule *)
C14_Witness ==
    /\ detected = UnitMicron
    /\ obj.header.fexper = 1
    /\ AxisFirst(obj.x_values) = 5
    /\ AxisLast(obj.x_values) = 50

SameTypeAndMean(f) ==
    /\ f.header.fexper = obj.header.fexper
    /\ AxisMean4(f.x_values) = AxisMean4(obj.x_values)

SameSpan(f) ==
    AxisLast(f.x_values) - AxisFirst(f.x_values)
        = AxisLast(obj.x_values) - AxisFirst(obj.x_values)

(* C15: every hand-filled document of the same experiment type and the same
   mean as the object gets the label the object got. *)
C15_TypeAndMeanDecide ==
    (detected # "" /\ obj.header.set)
        => \A f \in HandFilled :
               SameTypeAndMean(f) => DetectXUnits(f.header, f.x_values) = detected

(* C15, amended: every hand-filled document of the same experiment type, the
   same mean and the same span (last - first) as the object gets the label
   the object got. *)
C15_TypeMeanAndSpanDecide ==
    (detected # "" /\ obj.header.set)
        => \A f \in HandFilled :
               (SameTypeAndMean(f) /\ SameSpan(f))
                   => DetectXUnits(f.header, f.x_values) = detected

(* C15: a general-type object that shares its mean and span with a document
   of another number of points, and its mean alone with a document that is
   labelled differently *)
C15_Witness ==
    /\ detected # ""
    /\ obj.header.fexper = 1
    /\ \E f \in HandFilled :
           SameTypeAndMean(f) /\ SameSpan(f) /\ f.x_values.num # obj.x_values.num
    /\ \E f \in HandFilled :
           SameTypeAndMean(f) /\ ~SameSpan(f) /\ DetectXUnits(f.header, f.x_values) # detected

(* C16: the object parsed from the file synthesized from an object with a
   header and a non-empty axis has the unit _detect_x_units gives the
   original object. *)
C16_SynthesizeKeepsUnit ==
    (pc = "checked" /\ other.of = "synthesized" /\ obj.header.set /\ obj.x_values.len > 0)
        => other.obj.x_unit = DetectXUnits(obj.header, obj.x_values)

(* 4 * pointCount bytes fit at the offset o of the buffer b *)
FitsAt(b, o) == o + SliceSize(PointCount(b), Len(b)) <= Len(b)

FirstCandidate(b) == FirstFitting(CandidateOffsets, SliceSize(PointCount(b), Len(b)), Len(b))

(* the samples of a buffer with pointCount > 0 were read from a fitting slice *)
ReadFitting == ParsedWell /\ PointCount(Original) > 0 /\ ~parsed.rest

(* C17: the samples are read from the first of 512, 256, 128, 64, 32 at
   which 4 * pointCount bytes fit, whatever the typeFlags. *)
C17_FirstCandidateRead ==
    (ParsedWell /\ PointCount(Original) > 0 /\ FirstCandidate(Original) # 0)
        => (/\ parsed.y_at = FirstCandidate(Original)
            /\ obj.y_values = FromBuffer(Original, FirstCandidate(Original), PointCount(Original)))

(* where the samples are expected first: 512 with bit 0 of typeFlags set,
   512 + 4 * pointCount with it clear *)
ExpectedStart(b) ==
    IF b[1] % 2 = 1 THEN HeaderSize ELSE HeaderSize + SliceSize(PointCount(b), Len(b))

(* C17, amended: the samples are read from 512 when bit 0 of typeFlags is
   set and from 512 + 4 * pointCount when it is clear, if 4 * pointCount
   bytes fit there, and otherwise from the first of 512, 256, 128, 64, 32 at
   which they fit. *)
C17_StartThenCandidates ==
    (ParsedWell /\ PointCount(Original) > 0 /\ FirstCandidate(Original) # 0)
        => (/\ parsed.y_at = IF FitsAt(Original, ExpectedStart(Original))
                             THEN ExpectedStart(Original)
                             ELSE FirstCandidate(Original)
            /\ obj.y_values = FromBuffer(Original, parsed.y_at, PointCount(Original)))

(* C17: bit 0 clear and room for two slices: the second one is read *)
C17_Witness ==
    /\ ParsedWell
    /\ PointCount(Original) > 0
    /\ Original[1] % 2 = 0
    /\ parsed.y_at = HeaderSize + PointCount(Original) * SampleSize
    /\ obj.y_values # FromBuffer(Original, HeaderSize, PointCount(Original))

(* C18: write_file overwrites the slice parse_file read the samples from. *)
C18_WriteWhereRead ==
    (WroteBytes /\ parsed.ran /\ parsed.error = "") => call.result.offset = parsed.y_at

(* the 4-byte aligned offsets o with o + 4 * n <= len(original) whose slice
   correlates above 0.99 with the parsed samples *)
CorrelatedOffsets ==
    { o \in 0..(Len(Original) - Len(call.new_y) * SampleSize) :
        o % 4 = 0 /\ CorrelatesAt(obj, o, Len(call.new_y)) }

(* C19: with no candidate match, write_file patches the lowest aligned
   offset, up to len - 4 * n, whose slice correlates above 0.99. *)
C19_ScanReachesTheEnd ==
    (/\ pc = "returned"
     /\ Truthy(obj.original_data)
     /\ Len(call.new_y) = Len(obj.y_values)
     /\ ~SomeCandidateMatches
     /\ CorrelatedOffsets # {})
        => (/\ call.result.kind = "bytes"
            /\ call.result.offset = Lowest(CorrelatedOffsets))

(* firstX or lastX, as parse_file decodes them, is 1e6 or more in magnitude *)
Implausible(b) == ~ParseHeader(b).ffirst.small \/ ~ParseHeader(b).flast.small

NeedsPlaceholder ==
    /\ Held /\ parsed.ran /\ Len(Original) >= HeaderSize
    /\ (Implausible(Original) \/ PointCount(Original) = 0)

(* C20: with an implausible firstX or lastX, or pointCount 0, the axis built
   from the header is 1000 points from 400 to 4000. *)
C20_ThousandPoints ==
    NeedsPlaceholder
        => parsed.x_built = Linspace(2 * FallbackFirst, 2 * FallbackLast, FallbackPoints)

(* C20, amended: with an implausible firstX or lastX, or pointCount 0, the
   axis built from the header runs from 400 to 4000 over pointCount points,
   and over 1000 points when pointCount is 0. *)
C20_PointCountPoints ==
    NeedsPlaceholder
        => parsed.x_built =
               Linspace(2 * FallbackFirst, 2 * FallbackLast,
                        IF PointCount(Original) > 0 THEN PointCount(Original)
                        ELSE FallbackPoints)

(* C20: firstX 1048576.0 and a pointCount of 1 to 3 *)
C20_Witness ==
    /\ NeedsPlaceholder
    /\ Implausible(Original)
    /\ PointCount(Original) \in 1..MaxPoints
    /\ parsed.x_built.num = PointCount(Original)
    /\ obj.x_values.first = 2 * FallbackFirst

(* the buffer _create_simple_spc_file returned, as the second object holds it *)
Synthesized == other.obj.original_data.bytes

WasSynthesized == pc = "checked" /\ other.of = "synthesized"

(* bytes 1..3 of the synthesized header: version, experimentType and
   fractionExponent of the object's header, or 1, 1, 0 without a header *)
TypeBytesKept ==
    Slice(Synthesized, 1, 4) =
        IF obj.header.set THEN << obj.header.fversn, obj.header.fexper, obj.header.fexp >>
        ELSE << 1, 1, 0 >>

(* the synthesized bytes apart from the subfileCount field: bit 0 of byte 0,
   bytes 1..3, the point count, the length and the samples *)
SynthesizedFrame ==
    /\ Synthesized[1] % 2 = 1
    /\ TypeBytesKept
    /\ PointCount(Synthesized) = Len(obj.y_values)
    /\ Len(Synthesized) = HeaderSize + SampleSize * Len(obj.y_values)
    /\ Slice(Synthesized, HeaderSize, Len(Synthesized)) = ToBytes(AsFloat32(obj.y_values))

(* C21: the synthesized buffer has bit 0 of byte 0 set, version,
   experimentType and fractionExponent in bytes 1..3, len(yValues) in bytes
   4..8, 1 in the subfileCount field at bytes 28..32, and is 512 +
   4 * len(yValues) bytes long with yValues as float32 from offset 512. *)
C21_SynthesizedLayout ==
    WasSynthesized
        => (SynthesizedFrame /\ U32(Slice(Synthesized, 28, 32)) = 1)

(* a second object was parsed from the object's buffer with another
   typeFlags byte *)
Reflagged == pc = "checked" /\ other.of = "reflagged"

(* the object's buffer has pointCount > 0 and a firstX and lastX below 1e6 in
   magnitude, and a slice of 4 * pointCount bytes was read from it *)
FullSliceRead ==
    /\ ParsedWell
    /\ PointCount(Original) > 0
    /\ ~Implausible(Original)
    /\ ~parsed.rest

(* C22: of two buffers that differ in the typeFlags byte only, with
   pointCount > 0 and firstX, lastX below 1e6 in magnitude, a full slice of
   samples is read from both or from neither, and then both get the same
   x_values: pointCount evenly spaced values from firstX to lastX. *)
C22_FlagsKeepAxis ==
    (Reflagged /\ FullSliceRead)
        => (/\ other.trace.error = ""
            /\ ~other.trace.rest
            /\ other.obj.x_values = obj.x_values
            /\ obj.x_values = Linspace(ParseHeader(Original).ffirst.q,
                                       ParseHeader(Original).flast.q,
                                       PointCount(Original)))

(* C22: bit 0 set in one buffer and clear in the other, the samples read from
   different offsets, the axis 400..4000 in both *)
C22_Witness ==
    /\ Reflagged
    /\ FullSliceRead
    /\ Original[1] % 2 # other.obj.original_data.bytes[1] % 2
    /\ other.trace.y_at # parsed.y_at
    /\ other.obj.y_values # obj.y_values
    /\ obj.x_values.first = 2 * FallbackFirst
    /\ obj.x_values.len > 1

(* the axis x run in the other direction: the same values from last to first *)
Reversed(x) == Linspace(AxisLast(x), AxisFirst(x), x.len)

(* _detect_x_units was called on an object with a header of an experiment
   type other than 4, 5, 6 and a non-empty axis *)
DetectedByRange ==
    /\ detected # ""
    /\ obj.header.set
    /\ obj.header.fexper \notin { 4, 5, 6 }
    /\ obj.x_values.len > 0

(* C23: for an experiment type other than 4, 5, 6 the label of an axis is
   the label of the same axis run from its last value to its first, and is
   what the range rules give for its mean and its non-negative width. *)
C23_DirectionFree ==
    DetectedByRange
        => (/\ detected = DetectXUnits(obj.header, Reversed(obj.x_values))
            /\ detected = RangeRules(AxisMean4(obj.x_values),
                                     Abs(AxisLast(obj.x_values) - AxisFirst(obj.x_values))))

====
